---- MODULE Spec2Model ----
(***************************************************************************)
(* Model of scripts/convert_excel_to_jsonl.py: the conversion of an Excel  *)
(* multilabel dataset to JSONL using a labelmap.                           *)
(*                                                                         *)
(* Strings are sequences of one-character strings, so that strip(),        *)
(* lower() and float() are computed character by character.  Numbers are   *)
(* decimal fractions [m, f] standing for m / 10^f.                         *)
(***************************************************************************)
EXTENDS Integers, Sequences, FiniteSets, TLC

\* ------------------------------------------------------------------ bounds
MaxLen == 3          \* longest indicator string drawn from SmallChars
MaxMant == 12        \* numeric indicators are m/10^f with |m| <= MaxMant
MaxRows == 3         \* most rows of a spreadsheet
MaxFairRows == 2     \* most rows of a spreadsheet in the runs checked for termination
MaxNames == 3        \* longest label_names drawn for row_to_labels

\* ------------------------------------------------------------ characters
Whitespace == {" "}
Digits == {"0", "1", "4", "6"}
Signs == {"-"}
\* the alphabet of the exhaustively enumerated indicator strings
SmallChars == Whitespace \cup Digits \cup Signs \cup {".", "y", "N", "o"}

DigitVal(c) == CASE c = "0" -> 0 [] c = "1" -> 1 [] c = "4" -> 4 [] c = "6" -> 6

RECURSIVE Pow10(_)
Pow10(k) == IF k = 0 THEN 1 ELSE 10 * Pow10(k - 1)

\* ------------------------------------------------------------------ values
\* A cell of the spreadsheet (or any Python scalar handed to is_positive):
\* k is the kind; b, n, s are the payload of a bool, a number, a string.
NoNum == [m |-> 0, f |-> 0]
Null == [k |-> "null", b |-> FALSE, n |-> NoNum, s |-> <<>>]
Bool(x) == [k |-> "bool", b |-> x, n |-> NoNum, s |-> <<>>]
Num(mant, frac) == [k |-> "num", b |-> FALSE, n |-> [m |-> mant, f |-> frac], s |-> <<>>]
Str(chars) == [k |-> "str", b |-> FALSE, n |-> NoNum, s |-> chars]

\* a > b on decimal fractions
NumGt(a, b) == a.m * Pow10(b.f) > b.m * Pow10(a.f)

\* ------------------------------------------------------ string operations
\* str.strip(): drop leading and trailing whitespace
RECURSIVE lstrip(_)
lstrip(s) == IF s # <<>> /\ Head(s) \in Whitespace THEN lstrip(Tail(s)) ELSE s

RECURSIVE rstrip(_)
rstrip(s) ==
    IF s # <<>> /\ s[Len(s)] \in Whitespace THEN rstrip(SubSeq(s, 1, Len(s) - 1)) ELSE s

strip(s) == rstrip(lstrip(s))

\* str.lower(), character by character
LowerChar(c) ==
    CASE c = "Y" -> "y" [] c = "N" -> "n" [] c = "O" -> "o" [] c = "T" -> "t"
      [] c = "R" -> "r" [] c = "U" -> "u" [] c = "E" -> "e" [] c = "S" -> "s"
      [] c = "F" -> "f" [] c = "A" -> "a" [] c = "L" -> "l" [] OTHER -> c

lower(s) == [i \in 1..Len(s) |-> LowerChar(s[i])]

\* float(s) on a stripped string over the model's alphabet: an optional sign,
\* then digits with at most one point and at least one digit.  The scan keeps
\* the mantissa, the number of fraction digits and whether a point and a digit
\* were seen; any other character is a ValueError (ok = FALSE).
RECURSIVE ScanDecimal(_, _, _, _, _)
ScanDecimal(s, mant, frac, seenPoint, seenDigit) ==
    IF s = <<>> THEN [ok |-> seenDigit, m |-> mant, f |-> frac]
    ELSE IF Head(s) \in Digits
         THEN ScanDecimal(Tail(s), 10 * mant + DigitVal(Head(s)),
                          IF seenPoint THEN frac + 1 ELSE frac, seenPoint, TRUE)
    ELSE IF Head(s) = "." /\ ~seenPoint
         THEN ScanDecimal(Tail(s), mant, frac, TRUE, seenDigit)
    ELSE [ok |-> FALSE, m |-> 0, f |-> 0]

ParseFloat(s) ==
    LET neg == s # <<>> /\ Head(s) \in Signs
        r == ScanDecimal(IF neg THEN Tail(s) ELSE s, 0, 0, FALSE, FALSE)
    IN  [ok |-> r.ok, n |-> [m |-> IF neg THEN -r.m ELSE r.m, f |-> r.f]]

\* ---------------------------------------------------------- is_positive
TruthyTokens == {<<"1">>, <<"t", "r", "u", "e">>, <<"y", "e", "s">>, <<"y">>, <<"o", "n">>}
FalsyTokens == {<<"0">>, <<"f", "a", "l", "s", "e">>, <<"n", "o">>, <<"n">>,
                <<"o", "f", "f">>, <<>>}

is_positive_ge(v, threshold) ==
    IF v.k = "null" THEN FALSE
    ELSE IF v.k = "bool" THEN v.b
    ELSE IF v.k = "num" THEN ~NumGt(threshold, v.n)
    ELSE LET s == lower(strip(v.s))
         IN  IF s \in TruthyTokens THEN TRUE
             ELSE IF s \in FalsyTokens THEN FALSE
             ELSE LET p == ParseFloat(s) IN p.ok /\ ~NumGt(threshold, p.n)

is_positive(v, threshold) ==
    IF v.k = "null" THEN FALSE                      \* None, NaN
    ELSE IF v.k = "bool" THEN v.b
    ELSE IF v.k = "num" THEN NumGt(v.n, threshold)
    ELSE LET s == lower(strip(v.s))
         IN  IF s \in TruthyTokens THEN TRUE
             ELSE IF s \in FalsyTokens THEN FALSE
             ELSE LET p == ParseFloat(s) IN p.ok /\ NumGt(p.n, threshold)

\* ---------------------------------------------------------- row_to_labels
\* int(x) of a JSON number: truncation toward zero
PyInt(x) ==
    IF x.m >= 0 THEN x.m \div Pow10(x.f) ELSE -((-x.m) \div Pow10(x.f))

\* The loop of row_to_labels from position i on, with the lists built so far.
\* raised = TRUE is the KeyError of label2id[name]; nothing is returned then.
RECURSIVE LabelLoop(_, _, _, _, _, _, _)
LabelLoop(row, label_names, label2id, threshold, i, labels, label_ids) ==
    IF i > Len(label_names)
    THEN [raised |-> FALSE, labels |-> labels, label_ids |-> label_ids]
    ELSE LET name == label_names[i]
         IN  IF name \notin DOMAIN row
             THEN LabelLoop(row, label_names, label2id, threshold, i + 1, labels, label_ids)
             ELSE IF is_positive(row[name], threshold)
             THEN IF name \notin DOMAIN label2id
                  THEN [raised |-> TRUE, labels |-> <<>>, label_ids |-> <<>>]
                  ELSE LabelLoop(row, label_names, label2id, threshold, i + 1,
                                 Append(labels, name),
                                 Append(label_ids, PyInt(label2id[name])))
             ELSE LabelLoop(row, label_names, label2id, threshold, i + 1, labels, label_ids)

\* the same loop with each id put in front of the ids collected so far
RECURSIVE LabelLoopFront(_, _, _, _, _, _, _)
LabelLoopFront(row, label_names, label2id, threshold, i, labels, label_ids) ==
    IF i > Len(label_names)
    THEN [raised |-> FALSE, labels |-> labels, label_ids |-> label_ids]
    ELSE LET name == label_names[i]
         IN  IF name \notin DOMAIN row
             THEN LabelLoopFront(row, label_names, label2id, threshold, i + 1, labels, label_ids)
             ELSE IF is_positive(row[name], threshold)
             THEN IF name \notin DOMAIN label2id
                  THEN [raised |-> TRUE, labels |-> <<>>, label_ids |-> <<>>]
                  ELSE LabelLoopFront(row, label_names, label2id, threshold, i + 1,
                                      Append(labels, name),
                                      <<PyInt(label2id[name])>> \o label_ids)
             ELSE LabelLoopFront(row, label_names, label2id, threshold, i + 1, labels, label_ids)

row_to_labels_front(row, label_names, label2id, threshold) ==
    LabelLoopFront(row, label_names, label2id, threshold, 1, <<>>, <<>>)

row_to_labels(row, label_names, label2id, threshold) ==
    LabelLoop(row, label_names, label2id, threshold, 1, <<>>, <<>>)

\* ------------------------------------------------------------ load_labelmap
RequiredKeys == {"text_column", "label_names", "label2id"}

\* m is the parsed JSON object: keys is the set of its keys, names_is_list and
\* label2id_is_dict the Python types of the two values.  TRUE: m is returned;
\* FALSE: ValueError is raised.
load_labelmap(m) ==
    /\ \A k \in RequiredKeys : k \in m.keys
    /\ m.names_is_list /\ m.label2id_is_dict

\* ------------------------------------------------------------------- main
VARIABLES
    pc,                    \* position of main: Init, Loaded, Validated, Streaming,
                           \* Done (return 0), Failed (return 2), Crashed (uncaught exception)
    exit_code,             \* process exit status, -1 while running
    args,                  \* parsed command line
    xlsx_exists,           \* in_xlsx.exists()
    labelmap_exists,       \* labelmap_path.exists()
    labelmap,              \* the JSON object read by load_labelmap
    df,                    \* what pd.read_excel returned
    out_file,              \* the file at out_jsonl
    stderr,                \* diagnostic printed on stderr
    summary,               \* run summary printed on stdout
    idx,                   \* rows of df.iterrows() consumed so far
    n_total,
    n_written,
    n_skipped_empty_text,
    n_skipped_no_label,
    arg_v, arg_t, ret_positive,                       \* one call of is_positive
    arg_row, arg_names, arg_label2id, ret_labels      \* one call of row_to_labels

mainvars == <<pc, exit_code, args, xlsx_exists, labelmap_exists, labelmap, df, out_file,
              stderr, summary, idx, n_total, n_written, n_skipped_empty_text,
              n_skipped_no_label>>
posvars == <<arg_v, arg_t, ret_positive>>
labvars == <<arg_row, arg_names, arg_label2id, ret_labels>>
vars == <<mainvars, posvars, labvars>>

counters == <<n_total, n_written, n_skipped_empty_text, n_skipped_no_label>>

\* --threshold 0.5, the default
DefaultThreshold == [m |-> 5, f |-> 1]

\* include_labels is always True (set_defaults); sheet_given = FALSE is
\* args.sheet = None, the default
Args == [skip_no_label : BOOLEAN, no_labels : BOOLEAN, sheet_given : BOOLEAN,
         threshold : {DefaultThreshold}]

\* ---- the files the run may find
TextCol == "Text"
LabelCols == <<"F", "A">>
AllCols == {TextCol, "F", "A"}

FullIds == [c \in {"F", "A"} |-> IF c = "F" THEN [m |-> 0, f |-> 0] ELSE [m |-> 1, f |-> 0]]
PartialIds == [c \in {"F"} |-> [m |-> 0, f |-> 0]]

NoLabelmap == [keys |-> {}, names_is_list |-> FALSE, label2id_is_dict |-> FALSE,
               text_column |-> "", label_names |-> <<>>, label2id |-> <<>>]

ValidLabelmaps ==
    { [keys |-> RequiredKeys, names_is_list |-> TRUE, label2id_is_dict |-> TRUE,
       text_column |-> TextCol, label_names |-> LabelCols, label2id |-> ids]
      : ids \in {FullIds, PartialIds} }

InvalidLabelmaps ==
    { [keys |-> RequiredKeys \ {k}, names_is_list |-> TRUE, label2id_is_dict |-> TRUE,
       text_column |-> TextCol, label_names |-> LabelCols, label2id |-> FullIds]
      : k \in RequiredKeys }
    \cup
    { [keys |-> RequiredKeys, names_is_list |-> nl, label2id_is_dict |-> ld,
       text_column |-> TextCol, label_names |-> LabelCols, label2id |-> FullIds]
      : <<nl, ld>> \in {<<FALSE, TRUE>>, <<TRUE, FALSE>>} }

LabelmapFiles == ValidLabelmaps \cup InvalidLabelmaps

\* a row of the worksheet with all three columns
Row(text, f, a) ==
    [c \in AllCols |-> CASE c = TextCol -> text [] c = "F" -> f [] c = "A" -> a]

Yes == Str(<<"Y", "e", "s", " ">>)

\* Rows with text under every combination of the two indicators, and rows
\* whose text is missing (NaN), empty or blank.
RowPool ==
    {Row(Str(<<" ", "r", " ">>), f, a) : f \in {Num(0, 0), Num(1, 0)}, a \in {Null, Yes}}
    \cup {Row(Null, Num(1, 0), Yes), Row(Str(<<>>), Num(0, 0), Null),
          Row(Str(<<" ">>), Num(0, 0), Yes)}

RowsOver(cols) == {[c \in cols |-> r[c]] : r \in RowPool}

SeqsUpTo(S, n) == UNION {[1..k -> S] : k \in 0..n}

\* a worksheet: its header and its rows
SheetsUpTo(n) ==
    UNION { {[columns |-> cols, rows |-> rs] : rs \in SeqsUpTo(RowsOver(cols), n)}
            : cols \in {AllCols, AllCols \ {"A"}, AllCols \ {TextCol}} }

Sheets == SheetsUpTo(MaxRows)
ShortSheets == SheetsUpTo(MaxFairRows)

NoFrame == [kind |-> "none", columns |-> {}, rows |-> <<>>]

\* pd.read_excel(in_xlsx, sheet_name=sheet): a DataFrame for a sheet name, the
\* dict of all sheets' DataFrames for sheet_name=None.
read_excel(sheet, sheet_given) ==
    [kind |-> IF sheet_given THEN "frame" ELSE "sheets",
     columns |-> sheet.columns, rows |-> sheet.rows]

NoFile == [exists |-> FALSE, lines |-> <<>>]
NoSummary == [printed |-> FALSE, total |-> 0, written |-> 0, skipped_empty_text |-> 0,
              shows_no_label |-> FALSE, skipped_no_label |-> 0]
NoDiag == [msg |-> "", missing |-> <<>>, available |-> {}]

NoResult == [done |-> FALSE, value |-> FALSE]
NoLabels == [done |-> FALSE, raised |-> FALSE, labels |-> <<>>, label_ids |-> <<>>]

IdleCalls ==
    /\ arg_v = Null /\ arg_t = DefaultThreshold /\ ret_positive = NoResult
    /\ arg_row = <<>> /\ arg_names = <<>> /\ arg_label2id = <<>> /\ ret_labels = NoLabels

Init ==
    /\ pc = "Init"
    /\ exit_code = -1
    /\ args \in Args
    /\ xlsx_exists \in BOOLEAN
    /\ labelmap_exists \in BOOLEAN
    /\ labelmap = NoLabelmap
    /\ df = NoFrame
    /\ out_file = NoFile
    /\ stderr = NoDiag
    /\ summary = NoSummary
    /\ idx = 0
    /\ n_total = 0 /\ n_written = 0 /\ n_skipped_empty_text = 0 /\ n_skipped_no_label = 0
    /\ IdleCalls

\* ---- Init -> Loaded (lines 114-131)
Terminate(state, code, diag) ==
    /\ pc' = state
    /\ exit_code' = code
    /\ stderr' = diag

XlsxNotFound ==
    /\ pc = "Init"
    /\ ~xlsx_exists
    /\ Terminate("Failed", 2, [NoDiag EXCEPT !.msg = "input Excel not found"])
    /\ UNCHANGED <<args, xlsx_exists, labelmap_exists, labelmap, df, out_file, summary,
                   idx, counters, posvars, labvars>>

LabelmapNotFound ==
    /\ pc = "Init"
    /\ xlsx_exists /\ ~labelmap_exists
    /\ Terminate("Failed", 2, [NoDiag EXCEPT !.msg = "labelmap not found"])
    /\ UNCHANGED <<args, xlsx_exists, labelmap_exists, labelmap, df, out_file, summary,
                   idx, counters, posvars, labvars>>

\* load_labelmap raises ValueError, which main does not catch: traceback, status 1
LabelmapRejected ==
    /\ pc = "Init"
    /\ xlsx_exists /\ labelmap_exists
    /\ \E m \in LabelmapFiles :
          /\ ~load_labelmap(m)
          /\ labelmap' = m
    /\ Terminate("Crashed", 1, [NoDiag EXCEPT !.msg = "Traceback: ValueError"])
    /\ UNCHANGED <<args, xlsx_exists, labelmap_exists, df, out_file, summary,
                   idx, counters, posvars, labvars>>

\* pd.read_excel raises (corrupt file, no such sheet): caught, status 2
ReadFailed ==
    /\ pc = "Init"
    /\ xlsx_exists /\ labelmap_exists
    /\ \E m \in LabelmapFiles :
          /\ load_labelmap(m)
          /\ labelmap' = m
    /\ Terminate("Failed", 2, [NoDiag EXCEPT !.msg = "failed to read excel"])
    /\ UNCHANGED <<args, xlsx_exists, labelmap_exists, df, out_file, summary,
                   idx, counters, posvars, labvars>>

\* both files are read; the worksheet is one of sheets
LoadFrom(sheets) ==
    /\ pc = "Init"
    /\ xlsx_exists /\ labelmap_exists
    /\ \E m \in LabelmapFiles, sheet \in sheets :
          /\ load_labelmap(m)
          /\ labelmap' = m
          /\ df' = read_excel(sheet, args.sheet_given)
    /\ pc' = "Loaded"
    /\ UNCHANGED <<exit_code, args, xlsx_exists, labelmap_exists, out_file, stderr, summary,
                   idx, counters, posvars, labvars>>

Load == LoadFrom(Sheets)

LoadShort == LoadFrom(ShortSheets)

\* ---- Loaded -> Validated (lines 133-142)
\* [c for c in seq if c not in columns]
RECURSIVE NotIn(_, _)
NotIn(seq, columns) ==
    IF seq = <<>> THEN <<>>
    ELSE (IF Head(seq) \notin columns THEN <<Head(seq)>> ELSE <<>>) \o NotIn(Tail(seq), columns)

MissingColumns(m, columns) == NotIn(<<m.text_column>> \o m.label_names, columns)

\* df is the dict of sheets (sheet_name=None): df.columns raises AttributeError
ColumnsOfDict ==
    /\ pc = "Loaded"
    /\ df.kind = "sheets"
    /\ Terminate("Crashed", 1, [NoDiag EXCEPT !.msg = "Traceback: AttributeError"])
    /\ UNCHANGED <<args, xlsx_exists, labelmap_exists, labelmap, df, out_file, summary,
                   idx, counters, posvars, labvars>>

ColumnsMissing ==
    /\ pc = "Loaded"
    /\ df.kind = "frame"
    /\ MissingColumns(labelmap, df.columns) # <<>>
    /\ Terminate("Failed", 2, [msg |-> "Excel missing required columns",
                               missing |-> MissingColumns(labelmap, df.columns),
                               available |-> df.columns])
    /\ UNCHANGED <<args, xlsx_exists, labelmap_exists, labelmap, df, out_file, summary,
                   idx, counters, posvars, labvars>>

Validate ==
    /\ pc = "Loaded"
    /\ df.kind = "frame"
    /\ MissingColumns(labelmap, df.columns) = <<>>
    /\ pc' = "Validated"
    /\ UNCHANGED <<exit_code, args, xlsx_exists, labelmap_exists, labelmap, df, out_file,
                   stderr, summary, idx, counters, posvars, labvars>>

\* ---- Validated -> Streaming (lines 144-151): the output file is opened for
\* writing, which creates or truncates it; the counters start at 0
OpenOutput ==
    /\ pc = "Validated"
    /\ out_file' = [exists |-> TRUE, lines |-> <<>>]
    /\ n_total' = 0 /\ n_written' = 0
    /\ n_skipped_empty_text' = 0 /\ n_skipped_no_label' = 0
    /\ pc' = "Streaming"
    /\ UNCHANGED <<exit_code, args, xlsx_exists, labelmap_exists, labelmap, df, stderr,
                   summary, idx, posvars, labvars>>

\* ---- Streaming (lines 152-173): one iteration of the loop over df.iterrows()
\* text = row.get(text_col, ""); "" if pd.isna(text) else str(text).strip()
\* (str() of a str is the string itself)
RowTextUnstripped(row) ==
    IF TextCol \notin DOMAIN row THEN <<>>
    ELSE IF row[TextCol].k = "null" THEN <<>>
    ELSE row[TextCol].s

RowText(row) ==
    IF TextCol \notin DOMAIN row THEN <<>>
    ELSE IF row[TextCol].k = "null" THEN <<>>
    ELSE strip(row[TextCol].s)

RowLabels(row) == row_to_labels(row, labelmap.label_names, labelmap.label2id, args.threshold)

\* the record of lines 166-170; has_labels = FALSE is a record with no "labels" key
MakeRecord(text, r) ==
    LET include_labels == ~args.no_labels
    IN  [text |-> text, has_labels |-> include_labels,
         labels |-> IF include_labels THEN r.labels ELSE <<>>,
         label_ids |-> r.label_ids]

\* args.skip_no_label and len(label_ids) == 0
SkipsNoLabelAlways(r) == Len(r.label_ids) = 0

SkipsNoLabel(r) == args.skip_no_label /\ Len(r.label_ids) = 0

CurrentRow == df.rows[idx + 1]

InLoop == pc = "Streaming" /\ idx < Len(df.rows)

\* the row is counted only after the text test
SkipEmptyTextUncounted ==
    /\ pc = "Streaming" /\ idx < Len(df.rows)
    /\ RowText(df.rows[idx + 1]) = <<>>
    /\ n_skipped_empty_text' = n_skipped_empty_text + 1
    /\ idx' = idx + 1
    /\ UNCHANGED <<pc, exit_code, args, xlsx_exists, labelmap_exists, labelmap, df, out_file,
                   stderr, summary, n_total, n_written, n_skipped_no_label, posvars, labvars>>

SkipEmptyText ==
    /\ InLoop
    /\ RowText(CurrentRow) = <<>>
    /\ n_total' = n_total + 1
    /\ n_skipped_empty_text' = n_skipped_empty_text + 1
    /\ idx' = idx + 1
    /\ UNCHANGED <<pc, exit_code, args, xlsx_exists, labelmap_exists, labelmap, df, out_file,
                   stderr, summary, n_written, n_skipped_no_label, posvars, labvars>>

\* the KeyError is swallowed and the row passed over
LookupSkipsRow ==
    /\ pc = "Streaming" /\ idx < Len(df.rows)
    /\ RowText(df.rows[idx + 1]) # <<>>
    /\ RowLabels(df.rows[idx + 1]).raised
    /\ n_total' = n_total + 1
    /\ idx' = idx + 1
    /\ UNCHANGED <<pc, exit_code, args, xlsx_exists, labelmap_exists, labelmap, df, out_file,
                   stderr, summary, n_written, n_skipped_empty_text, n_skipped_no_label,
                   posvars, labvars>>

\* label2id[name] raises KeyError inside row_to_labels: the with block closes
\* the file, main does not catch: traceback, status 1
LookupFails ==
    /\ InLoop
    /\ RowText(CurrentRow) # <<>>
    /\ RowLabels(CurrentRow).raised
    /\ n_total' = n_total + 1
    /\ Terminate("Crashed", 1, [NoDiag EXCEPT !.msg = "Traceback: KeyError"])
    /\ UNCHANGED <<args, xlsx_exists, labelmap_exists, labelmap, df, out_file, summary, idx,
                   n_written, n_skipped_empty_text, n_skipped_no_label, posvars, labvars>>

SkipNoLabel ==
    /\ InLoop
    /\ RowText(CurrentRow) # <<>>
    /\ ~RowLabels(CurrentRow).raised
    /\ SkipsNoLabel(RowLabels(CurrentRow))
    /\ n_total' = n_total + 1
    /\ n_skipped_no_label' = n_skipped_no_label + 1
    /\ idx' = idx + 1
    /\ UNCHANGED <<pc, exit_code, args, xlsx_exists, labelmap_exists, labelmap, df, out_file,
                   stderr, summary, n_written, n_skipped_empty_text, posvars, labvars>>

\* the record is put before the lines written so far
WriteRecordFront ==
    /\ pc = "Streaming" /\ idx < Len(df.rows)
    /\ RowText(df.rows[idx + 1]) # <<>>
    /\ ~RowLabels(df.rows[idx + 1]).raised
    /\ ~SkipsNoLabel(RowLabels(df.rows[idx + 1]))
    /\ n_total' = n_total + 1
    /\ out_file' = [out_file EXCEPT
                      !.lines = <<MakeRecord(RowText(df.rows[idx + 1]),
                                             RowLabels(df.rows[idx + 1]))>> \o @]
    /\ n_written' = n_written + 1
    /\ idx' = idx + 1
    /\ UNCHANGED <<pc, exit_code, args, xlsx_exists, labelmap_exists, labelmap, df,
                   stderr, summary, n_skipped_empty_text, n_skipped_no_label, posvars, labvars>>

WriteRecord ==
    /\ InLoop
    /\ RowText(CurrentRow) # <<>>
    /\ ~RowLabels(CurrentRow).raised
    /\ ~SkipsNoLabel(RowLabels(CurrentRow))
    /\ n_total' = n_total + 1
    /\ out_file' = [out_file EXCEPT
                      !.lines = Append(@, MakeRecord(RowText(CurrentRow), RowLabels(CurrentRow)))]
    /\ n_written' = n_written + 1
    /\ idx' = idx + 1
    /\ UNCHANGED <<pc, exit_code, args, xlsx_exists, labelmap_exists, labelmap, df,
                   stderr, summary, n_skipped_empty_text, n_skipped_no_label, posvars, labvars>>

\* ---- Streaming -> Done (lines 175-182)
\* the loop is entered again instead of returning
FinishRewinds ==
    /\ pc = "Streaming"
    /\ idx = Len(df.rows)
    /\ pc' = "Validated"
    /\ idx' = 0
    /\ UNCHANGED <<exit_code, args, xlsx_exists, labelmap_exists, labelmap, df, out_file,
                   stderr, summary, counters, posvars, labvars>>

Finish ==
    /\ pc = "Streaming"
    /\ idx = Len(df.rows)
    /\ summary' = [printed |-> TRUE, total |-> n_total, written |-> n_written,
                   skipped_empty_text |-> n_skipped_empty_text,
                   shows_no_label |-> args.skip_no_label,
                   skipped_no_label |-> n_skipped_no_label]
    /\ pc' = "Done"
    /\ exit_code' = 0
    /\ UNCHANGED <<args, xlsx_exists, labelmap_exists, labelmap, df, out_file, stderr, idx,
                   counters, posvars, labvars>>

Next ==
    \/ XlsxNotFound
    \/ LabelmapNotFound
    \/ LabelmapRejected
    \/ ReadFailed
    \/ Load
    \/ ColumnsOfDict
    \/ ColumnsMissing
    \/ Validate
    \/ OpenOutput
    \/ SkipEmptyText
    \/ LookupFails
    \/ SkipNoLabel
    \/ WriteRecord
    \/ Finish

Spec == Init /\ [][Next]_vars

\* The same run over the shorter spreadsheets.  main runs to its return or to
\* the uncaught exception and never waits: a step that can be taken is taken.
FairNext ==
    \/ XlsxNotFound
    \/ LabelmapNotFound
    \/ LabelmapRejected
    \/ ReadFailed
    \/ LoadShort
    \/ ColumnsOfDict
    \/ ColumnsMissing
    \/ Validate
    \/ OpenOutput
    \/ SkipEmptyText
    \/ LookupFails
    \/ SkipNoLabel
    \/ WriteRecord
    \/ Finish

FairSpec == Init /\ [][FairNext]_vars /\ WF_vars(FairNext)

\* ------------------------------------------------- is_positive on its own
\* main stays where it is while a function is called on its own
MainIdle ==
    /\ pc = "Init" /\ exit_code = -1
    /\ args = [skip_no_label |-> FALSE, no_labels |-> FALSE, sheet_given |-> FALSE,
               threshold |-> DefaultThreshold]
    /\ xlsx_exists = FALSE /\ labelmap_exists = FALSE
    /\ labelmap = NoLabelmap /\ df = NoFrame /\ out_file = NoFile
    /\ stderr = NoDiag /\ summary = NoSummary /\ idx = 0
    /\ n_total = 0 /\ n_written = 0 /\ n_skipped_empty_text = 0 /\ n_skipped_no_label = 0

Pad(w) == {w, <<" ">> \o w, w \o <<" ">>, <<" ">> \o w \o <<" ">>}

\* the tokens of the two sets in several spellings, and near misses
Words ==
    { <<"t", "r", "u", "e">>, <<"T", "R", "U", "E">>, <<"T", "r", "u", "e">>,
      <<"y", "e", "s">>, <<"Y", "e", "s">>, <<"Y", "E", "S">>, <<"o", "n">>, <<"O", "n">>,
      <<"f", "a", "l", "s", "e">>, <<"F", "a", "l", "s", "e">>, <<"F", "A", "L", "S", "E">>,
      <<"n", "o">>, <<"N", "O">>, <<"o", "f", "f">>, <<"O", "F", "F">>, <<"O", "f", "f">>,
      <<"t", "r", "u">>, <<"y", "e", "s", "s">>, <<"o", "f">>, <<"f", "a", "l", "s", "e", "0">>,
      <<"t", " ", "r", "u", "e">>, <<"1", "y">> }

IndicatorValues ==
    {Null, Bool(TRUE), Bool(FALSE)}
    \cup {Num(m, f) : m \in (-MaxMant)..MaxMant, f \in 0..1}
    \cup {Str(s) : s \in SeqsUpTo(SmallChars, MaxLen)}
    \cup {Str(s) : s \in UNION {Pad(w) : w \in Words}}

\* 0.5 (the default), 0, 1, 1.5, -0.5, 0.06
Thresholds == {DefaultThreshold, [m |-> 0, f |-> 0], [m |-> 1, f |-> 0], [m |-> 15, f |-> 1],
               [m |-> -5, f |-> 1], [m |-> 6, f |-> 2]}

InitPositive ==
    /\ MainIdle
    /\ arg_v \in IndicatorValues
    /\ arg_t \in Thresholds
    /\ ret_positive = NoResult
    /\ arg_row = <<>> /\ arg_names = <<>> /\ arg_label2id = <<>> /\ ret_labels = NoLabels

CallIsPositive ==
    /\ ~ret_positive.done
    /\ ret_positive' = [done |-> TRUE, value |-> is_positive(arg_v, arg_t)]
    /\ UNCHANGED <<mainvars, arg_v, arg_t, labvars>>

SpecPositive == InitPositive /\ [][CallIsPositive]_vars

\* ----------------------------------------------- row_to_labels on its own
LabelNames == {"F", "A", "S"}
IndicatorPool == {Num(0, 0), Yes}
\* ids as the JSON numbers 0, 2 and 1.0
IdPool == {[m |-> 0, f |-> 0], [m |-> 2, f |-> 0], [m |-> 10, f |-> 1]}

PartialMaps(keys, values) == UNION {[d -> values] : d \in SUBSET keys}

InitLabels ==
    /\ MainIdle
    /\ arg_v = Null /\ ret_positive = NoResult
    /\ arg_t = DefaultThreshold
    /\ arg_row \in PartialMaps(LabelNames, IndicatorPool)
    /\ arg_names \in SeqsUpTo(LabelNames, MaxNames)
    /\ arg_label2id \in PartialMaps(LabelNames, IdPool)
    /\ ret_labels = NoLabels

CallRowToLabels ==
    /\ ~ret_labels.done
    /\ LET r == row_to_labels(arg_row, arg_names, arg_label2id, arg_t)
       IN  ret_labels' = [done |-> TRUE, raised |-> r.raised, labels |-> r.labels,
                          label_ids |-> r.label_ids]
    /\ UNCHANGED <<mainvars, posvars, arg_row, arg_names, arg_label2id>>

SpecLabels == InitLabels /\ [][CallRowToLabels]_vars

\* ======================================================================
\* Properties
\* ======================================================================

\* ---- the cascade of section 4.2, stated without the model's scanners
SetMin(S) == CHOOSE x \in S : \A y \in S : x <= y
SetMax(S) == CHOOSE x \in S : \A y \in S : x >= y

\* s without its leading and trailing whitespace
Trimmed(s) ==
    LET solid == {i \in 1..Len(s) : s[i] \notin Whitespace}
    IN  IF solid = {} THEN <<>> ELSE SubSeq(s, SetMin(solid), SetMax(solid))

UpperChar(c) ==
    CASE c = "y" -> "Y" [] c = "n" -> "N" [] c = "o" -> "O" [] c = "t" -> "T"
      [] c = "r" -> "R" [] c = "u" -> "U" [] c = "e" -> "E" [] c = "s" -> "S"
      [] c = "f" -> "F" [] c = "a" -> "A" [] c = "l" -> "L" [] OTHER -> c

\* s spells the lower-case token w in any mix of cases
Spells(s, w) == Len(s) = Len(w) /\ \A i \in 1..Len(w) : s[i] \in {w[i], UpperChar(w[i])}

SpellsOneOf(s, tokens) == \E w \in tokens : Spells(s, w)

\* u is a decimal numeral: an optional sign, digits, at most one point
Unsigned(u) == IF u # <<>> /\ u[1] \in Signs THEN SubSeq(u, 2, Len(u)) ELSE u

IsNumeral(u) ==
    LET b == Unsigned(u)
    IN  /\ \A i \in 1..Len(b) : b[i] \in Digits \cup {"."}
        /\ Cardinality({i \in 1..Len(b) : b[i] = "."}) <= 1
        /\ \E i \in 1..Len(b) : b[i] \in Digits

\* the number of digits after the point
FractionDigits(u) ==
    LET b == Unsigned(u)
        points == {i \in 1..Len(b) : b[i] = "."}
    IN  IF points = {} THEN 0 ELSE Len(b) - SetMin(points)

\* the numeral's value times 10^FractionDigits(u), by the place of each digit
ScaledValue(u) ==
    LET b == Unsigned(u)
        \* the digits to the right of position i
        after(i) == Cardinality({j \in (i + 1)..Len(b) : b[j] \in Digits})
        sum[i \in 0..Len(b)] ==
            IF i = 0 THEN 0
            ELSE sum[i - 1] + (IF b[i] \in Digits THEN DigitVal(b[i]) * Pow10(after(i)) ELSE 0)
    IN  IF u[1] \in Signs THEN -sum[Len(b)] ELSE sum[Len(b)]

Cascade(v, t) ==
    CASE v.k = "null" -> FALSE
      [] v.k = "bool" -> v.b
      [] v.k = "num" -> v.n.m * Pow10(t.f) > t.m * Pow10(v.n.f)
      [] v.k = "str" ->
            LET u == Trimmed(v.s)
            IN  IF SpellsOneOf(u, {<<"1">>, <<"t", "r", "u", "e">>, <<"y", "e", "s">>,
                                   <<"y">>, <<"o", "n">>}) THEN TRUE
                ELSE IF SpellsOneOf(u, {<<"0">>, <<"f", "a", "l", "s", "e">>, <<"n", "o">>,
                                        <<"n">>, <<"o", "f", "f">>, <<>>}) THEN FALSE
                ELSE IsNumeral(u) /\ ScaledValue(u) * Pow10(t.f) > t.m * Pow10(FractionDigits(u))

\* C1: for every indicator value (missing, boolean, number, string) and every
\* threshold, is_positive returns what the first matching rule of the cascade
\* says: missing is inactive, a boolean is its own value, a number is active
\* iff it is strictly greater than the threshold, a truthy or falsy token
\* decides whatever the threshold, and any other string is active iff it
\* parses as a number strictly greater than the threshold.
C1_Cascade == ret_positive.done => ret_positive.value = Cascade(arg_v, arg_t)

\* a padded numeral above the default threshold was classified
C1_Witness ==
    /\ ret_positive.done /\ ret_positive.value
    /\ arg_v = Str(<<" ", ".", "6">>) /\ arg_t = DefaultThreshold

\* ---- row_to_labels
\* the k-th smallest member of a set of positions
Kth(S, k) == CHOOSE i \in S : Cardinality({j \in S : j <= i}) = k

\* the positions of label_names whose name is a column of the row with an
\* active indicator
ActivePositions(row, names, t) ==
    {i \in 1..Len(names) : names[i] \in DOMAIN row /\ Cascade(row[names[i]], t)}

\* label_names restricted, in declared order, to the active names
ActiveNames(row, names, t) ==
    LET act == ActivePositions(row, names, t)
    IN  [k \in 1..Cardinality(act) |-> names[Kth(act, k)]]

AllActiveMapped(row, names, label2id, t) ==
    \A i \in ActivePositions(row, names, t) : names[i] \in DOMAIN label2id

\* C2: when every active label has an entry in label2id, row_to_labels returns
\* labels = label_names restricted in declared order to the names that are
\* columns of the row with an active indicator, and label_ids of the same
\* length with label_ids[i] = label2id[labels[i]]; names that are not columns
\* of the row are skipped without error.
C2_ParallelLabels ==
    (ret_labels.done /\ AllActiveMapped(arg_row, arg_names, arg_label2id, arg_t)) =>
        /\ ~ret_labels.raised
        /\ ret_labels.labels = ActiveNames(arg_row, arg_names, arg_t)
        /\ Len(ret_labels.label_ids) = Len(ret_labels.labels)
        /\ \A i \in 1..Len(ret_labels.labels) :
              LET id == arg_label2id[ret_labels.labels[i]]
              IN  ret_labels.label_ids[i] * Pow10(id.f) = id.m

\* two active labels with different ids were returned, after a name that is
\* no column of the row
C2_Witness ==
    /\ ret_labels.done /\ ~ret_labels.raised
    /\ Len(ret_labels.labels) = 2
    /\ ret_labels.label_ids[1] # ret_labels.label_ids[2]
    /\ \E i \in 1..Len(arg_names) : arg_names[i] \notin DOMAIN arg_row

\* ---- main
Terminal == {"Done", "Failed", "Crashed"}

\* the labelmap that was read breaks the schema of section 4.1
SchemaBroken ==
    /\ labelmap # NoLabelmap
    /\ \/ ~(RequiredKeys \subseteq labelmap.keys)
       \/ ~labelmap.names_is_list
       \/ ~labelmap.label2id_is_dict

\* C3: a labelmap file that lacks a required key, or whose label_names is no
\* sequence or label2id no mapping, ends the run with a reported SchemaError
\* and exit code 2, before any output is written.
C3_SchemaErrorExit2 ==
    SchemaBroken => (pc = "Failed" /\ exit_code = 2 /\ stderr # NoDiag /\ ~out_file.exists)

\* the text column or a label name is no column of the worksheet that was read
RequiredColumnAbsent ==
    /\ df.kind # "none"
    /\ \/ labelmap.text_column \notin df.columns
       \/ \E i \in 1..Len(labelmap.label_names) : labelmap.label_names[i] \notin df.columns

\* C4: when the spreadsheet or the labelmap path does not exist, or a required
\* column is absent from the spreadsheet, the run never enters the row loop,
\* writes no record, and ends with exit code 2.
C4_PreconditionExit2 ==
    (~xlsx_exists \/ ~labelmap_exists \/ RequiredColumnAbsent) =>
        /\ pc \notin {"Validated", "Streaming", "Done"}
        /\ out_file.lines = <<>>
        /\ n_total = 0
        /\ pc \in Terminal => exit_code = 2

\* ---- the row loop
\* the text cell is missing, empty or whitespace only
TextBlank(row) ==
    \/ row[TextCol].k = "null"
    \/ \A i \in 1..Len(row[TextCol].s) : row[TextCol].s[i] \in Whitespace

Names == labelmap.label_names

NoActiveLabel(row) == ActivePositions(row, Names, args.threshold) = {}

UnmappedActiveLabel(row) ==
    \E i \in ActivePositions(row, Names, args.threshold) : Names[i] \notin DOMAIN labelmap.label2id

\* C5: a row whose text is missing, empty or whitespace only yields no record,
\* adds exactly one to the empty-text skip counter and passes to the next row
\* without computing labels: no id lookup fails on it.
C5_EmptyTextSkipped ==
    [][(InLoop /\ TextBlank(CurrentRow)) =>
          /\ out_file' = out_file
          /\ n_skipped_empty_text' = n_skipped_empty_text + 1
          /\ n_written' = n_written /\ n_skipped_no_label' = n_skipped_no_label
          /\ idx' = idx + 1
          /\ pc' = "Streaming" /\ exit_code' = exit_code]_vars

\* a run ended well that passed a blank-text row carrying an active label
\* with no id, and a whitespace-only row
C5_Witness ==
    /\ pc = "Done"
    /\ n_skipped_empty_text >= 2
    /\ \E k \in 1..idx : TextBlank(df.rows[k]) /\ UnmappedActiveLabel(df.rows[k])
    /\ \E k \in 1..idx : df.rows[k][TextCol] = Str(<<" ">>)

\* C6: for a row with text and no active label, with skip_no_label the run
\* writes no line and adds one to the no-label skip counter; without it the
\* run writes exactly one record whose label_ids is empty and leaves the
\* no-label skip counter alone.
C6_NoLabelRow ==
    [][(InLoop /\ ~TextBlank(CurrentRow) /\ NoActiveLabel(CurrentRow)) =>
          IF args.skip_no_label
          THEN /\ out_file' = out_file
               /\ n_skipped_no_label' = n_skipped_no_label + 1
          ELSE /\ Len(out_file'.lines) = Len(out_file.lines) + 1
               /\ SubSeq(out_file'.lines, 1, Len(out_file.lines)) = out_file.lines
               /\ out_file'.lines[Len(out_file'.lines)].label_ids = <<>>
               /\ n_skipped_no_label' = n_skipped_no_label]_vars

\* a run with skip_no_label ended that skipped such a row and wrote another
C6_Witness ==
    /\ pc = "Done"
    /\ args.skip_no_label
    /\ \E k \in 1..idx : ~TextBlank(df.rows[k]) /\ NoActiveLabel(df.rows[k])
    /\ n_skipped_no_label = 1 /\ n_written = 1

\* the rows that are not filtered out
KeptRows ==
    {k \in 1..Len(df.rows) :
        ~TextBlank(df.rows[k]) /\ ~(args.skip_no_label /\ NoActiveLabel(df.rows[k]))}

\* the record a kept row stands for
RecordOf(row) ==
    LET names == ActiveNames(row, Names, args.threshold)
    IN  [text |-> Trimmed(row[TextCol].s),
         has_labels |-> ~args.no_labels,
         labels |-> IF args.no_labels THEN <<>> ELSE names,
         label_ids |-> [i \in 1..Len(names) |-> PyInt(labelmap.label2id[names[i]])]]

\* C7: in a completed run the output is the input rows in their order with
\* only the filtered rows removed: one record per kept row, the k-th record
\* from the k-th kept row.
C7_OrderPreserved ==
    pc = "Done" =>
        /\ Len(out_file.lines) = Cardinality(KeptRows)
        /\ \A j \in 1..Len(out_file.lines) :
              out_file.lines[j] = RecordOf(df.rows[Kth(KeptRows, j)])

\* two different records were written around a filtered row
C7_Witness ==
    /\ pc = "Done"
    /\ Len(df.rows) = 3 /\ KeptRows = {1, 3}
    /\ Len(out_file.lines) = 2
    /\ out_file.lines[1] # out_file.lines[2]

\* C8: when a row with text has an active label with no entry in label2id, the
\* run aborts at that row with the lookup error: no record is written for it
\* or for any later row, the row is not counted as skipped, and the run never
\* reaches Done (no summary, no exit code 0).
C8_LookupAborts ==
    [][/\ (InLoop /\ ~TextBlank(CurrentRow) /\ UnmappedActiveLabel(CurrentRow)) =>
             /\ pc' = "Crashed" /\ exit_code' = 1
             /\ stderr'.msg = "Traceback: KeyError"
             /\ out_file' = out_file
             /\ n_written' = n_written
             /\ n_skipped_empty_text' = n_skipped_empty_text
             /\ n_skipped_no_label' = n_skipped_no_label
             /\ summary' = NoSummary
       /\ pc = "Crashed" => vars' = vars]_vars

\* the run aborted on its second row, after one record, with a row left
C8_Witness ==
    /\ pc = "Crashed" /\ stderr.msg = "Traceback: KeyError"
    /\ idx = 1 /\ Len(out_file.lines) = 1 /\ Len(df.rows) = 3
    /\ n_total = 2
    /\ ~summary.printed

\* the order of the driver's states
NextState(p) ==
    CASE p = "Init" -> "Loaded" [] p = "Loaded" -> "Validated"
      [] p = "Validated" -> "Streaming" [] p = "Streaming" -> "Done" [] OTHER -> "none"

\* C9: the driver passes through Init, Loaded, Validated, Streaming, Done in
\* that order: every transition goes to the next state or to a terminal
\* failure, none is revisited or skipped, and every run ends, in Done with
\* exit code 0 and the summary printed, or in a failure.
C9_LinearAndTerminating ==
    /\ [][\/ pc' = pc /\ pc \notin Terminal
          \/ pc' = NextState(pc)
          \/ pc \notin Terminal /\ pc' \in {"Failed", "Crashed"}]_vars
    /\ [](pc = "Done" => exit_code = 0 /\ summary.printed)
    /\ [](pc \in {"Failed", "Crashed"} => exit_code \in {1, 2} /\ ~summary.printed)
    /\ <>(pc \in Terminal)

\* a run over two rows reached Done, one row written and one skipped
C9_Witness ==
    /\ pc = "Done" /\ exit_code = 0 /\ summary.printed
    /\ Len(df.rows) = 2 /\ n_written = 1

\* C10: after each row and at Done, rows seen = rows written + rows skipped
\* for empty text + rows skipped for no label, rows written is the number of
\* lines of the output file, and the no-label skip counter is 0 whenever
\* skip_no_label is off.
C10_Counters ==
    pc \in {"Streaming", "Done"} =>
        /\ n_total = n_written + n_skipped_empty_text + n_skipped_no_label
        /\ n_written = Len(out_file.lines)
        /\ ~args.skip_no_label => n_skipped_no_label = 0
        /\ pc = "Done" =>
              /\ summary.total = n_total /\ summary.written = n_written
              /\ summary.skipped_empty_text = n_skipped_empty_text
              /\ summary.skipped_no_label = n_skipped_no_label

\* a run ended with one row written and one skipped for each reason
C10_Witness ==
    /\ pc = "Done"
    /\ n_written = 1 /\ n_skipped_empty_text = 1 /\ n_skipped_no_label = 1

====
